---- MODULE Spec2Model ----
(***************************************************************************)
(* Donation-ledger core of the Masjid ERP server: the relational store     *)
(* (shared/schema), the storage layer (DatabaseStorage) and the routes     *)
(* that call it.  Every SQL statement is one atomic step; a handler that   *)
(* awaits several statements is a sequence of steps that other requests    *)
(* may interleave with.                                                    *)
(***************************************************************************)
EXTENDS Integers, FiniteSets, Sequences, TLC

VARIABLES users, tasks, expenseTypes, receiptBooks, receipts, expenses,
          publishedReports, req, restore, calls

store == <<users, tasks, expenseTypes, receiptBooks, receipts, expenses, publishedReports>>
vars == <<users, tasks, expenseTypes, receiptBooks, receipts, expenses, publishedReports, req, restore, calls>>

\* ------------------------------------------------------------------ bounds
\* Receipt-book bounds are drawn from 1..MaxNum, receipt numbers a caller
\* supplies from 0..MaxNum+1 (one value below and one above every range).
MaxNum == 2
\* Rows the receipts / receipt_books tables hold at most (ids are 1..Max).
MaxReceipts == 2
MaxBooks == 1
\* Rows per collection of an uploaded backup document.
MaxRows == 1
\* The allocation scan alone is exercised on ranges within 1..MaxScan and
\* used-number sets within 0..MaxScan+1.
MaxScan == 3

\* Rows the expenses / published_reports tables hold at most, and the largest
\* amount of a receipt or an expense (amounts are 1..MaxAmount).
MaxExpenses == 1
MaxReports == 2
MaxAmount == 2

\* Receipt books and receipts per store on which the per-task aggregation is
\* exercised (ids 1..MaxJoin, spread over the tasks 1..MaxJoin).
MaxJoin == 2

BookBounds == 1..MaxNum
Amounts == 1..MaxAmount
SuppliedNumbers == 0..(MaxNum + 1)
\* The two concurrent receipt-entry clients the allocation claims speak of.
Reqs == {1, 2}

\* ------------------------------------------------------------------ schema
Ids(table) == {row.id : row \in table}

\* gen_random_uuid(): an id no row of the table holds.
FreshId(table) == CHOOSE i \in 1..(Cardinality(table) + 1) : i \notin Ids(table)

\* seedDatabase(): four users, the admin first, then the default tasks and
\* expense types, all created by the admin.
SeedUsers ==
    { [id |-> 1, role |-> "admin"], [id |-> 2, role |-> "manager"],
      [id |-> 3, role |-> "cash_collector"], [id |-> 4, role |-> "cash_collector"] }
SeedTasks == { [id |-> i, createdBy |-> 1] : i \in 1..5 }
SeedExpenseTypes == { [id |-> i, createdBy |-> 1] : i \in 1..5 }

\* Foreign keys and primary keys of the tables, as PostgreSQL enforces them
\* on every INSERT and UPDATE of a row.  assignedTo is nullable (0 = NULL).
TaskRowOk(row) == row.createdBy \in Ids(users)
ExpenseTypeRowOk(row) == row.createdBy \in Ids(users)
ReceiptBookRowOk(row) ==
    /\ row.taskId \in Ids(tasks)
    /\ row.assignedTo = 0 \/ row.assignedTo \in Ids(users)
    /\ row.createdBy \in Ids(users)
ReceiptRowOk(row) ==
    /\ row.receiptBookId \in Ids(receiptBooks)
    /\ row.taskId \in Ids(tasks)
    /\ row.enteredBy \in Ids(users)
ExpenseRowOk(row) ==
    /\ row.expenseTypeId \in Ids(expenseTypes)
    /\ row.createdBy \in Ids(users)
PublishedReportRowOk(row) == row.publishedBy \in Ids(users)

\* authenticateToken: the caller is a row of users; requireRole checks its role.
RoleOf(u) == (CHOOSE row \in users : row.id = u).role
Authenticated(u) == u \in Ids(users)
IsAdminOrManager(u) == Authenticated(u) /\ RoleOf(u) \in {"admin", "manager"}

\* ------------------------------------------------------------------ storage reads
\* getReceiptBook: the rows select ... where id = ? returns (none or one).
getReceiptBook(id) == {b \in receiptBooks : b.id = id}

\* A read of the receipts that does not filter by book.
getReceiptsOfAnyBook(receiptBookId) == receipts

\* getReceiptsByBook
getReceiptsByBook(receiptBookId) == {r \in receipts : r.receiptBookId = receiptBookId}

\* getReceiptBookByNumber
getReceiptBookByNumber(bookNumber) == {b \in receiptBooks : b.bookNumber = bookNumber}

\* The scan of getNextReceiptNumber: for (num = start; num <= end; num++)
\* return the first num usedNumbers does not include; "exhausted" when the
\* loop ends (the throw after it).
RECURSIVE ScanFrom(_, _, _)
ScanWrongExhaustion(num, ending, usedNumbers) ==
    IF num > ending THEN [ok |-> TRUE, num |-> num]
    ELSE IF num \notin usedNumbers THEN [ok |-> TRUE, num |-> num]
    ELSE ScanFrom(num + 1, ending, usedNumbers)
ScanSkipsLast(num, ending, usedNumbers) ==
    IF num >= ending THEN [ok |-> FALSE, num |-> 0]
    ELSE IF num \notin usedNumbers THEN [ok |-> TRUE, num |-> num]
    ELSE ScanFrom(num + 1, ending, usedNumbers)
ScanFrom(num, ending, usedNumbers) ==
    IF num > ending THEN [ok |-> FALSE, num |-> 0]
    ELSE IF num \notin usedNumbers THEN [ok |-> TRUE, num |-> num]
    ELSE ScanFrom(num + 1, ending, usedNumbers)

\* usedNumbers = existingReceipts.map(r => r.receiptNumber)
UsedNumbers(existingReceipts) == {r.receiptNumber : r \in existingReceipts}

\* ------------------------------------------------------------------ requests
\* A receipt-entry client: GET /api/receipts/next-number/:book (two awaited
\* reads, then the scan) followed by POST /api/receipts with that number, or
\* POST /api/receipts with a number the caller typed.
IdleReq == [pc |-> "idle", user |-> 0, auto |-> FALSE, book |-> 0, rb |-> {},
            num |-> 0, result |-> "none"]

\* The form is opened for a new receipt: the next number is fetched.
BeginAuto(q, u, b) ==
    /\ req[q].pc = "idle"
    /\ Authenticated(u)
    /\ req' = [req EXCEPT ![q] = [IdleReq EXCEPT !.pc = "getBook", !.user = u,
                                                 !.auto = TRUE, !.book = b]]
    /\ UNCHANGED <<store, restore, calls>>

\* getNextReceiptNumber, first await: this.getReceiptBook(receiptBookId);
\* "Receipt book not found" is thrown when there is none.
GetNextReadBook(q) ==
    /\ req[q].pc = "getBook"
    /\ LET rb == getReceiptBook(req[q].book) IN
       req' = [req EXCEPT ![q] =
                 IF rb = {}
                 THEN [@ EXCEPT !.pc = "done", !.result = "book_not_found"]
                 ELSE [@ EXCEPT !.pc = "getReceipts", !.rb = rb]]
    /\ UNCHANGED <<store, restore, calls>>

\* getNextReceiptNumber, second await and the scan that follows it without
\* suspending: this.getReceiptsByBook, usedNumbers, the for loop.  The
\* locals receiptBook and usedNumbers die when the function returns.
GetNextScan(q) ==
    /\ req[q].pc = "getReceipts"
    /\ LET receiptBook == CHOOSE b \in req[q].rb : TRUE
           usedNumbers == UsedNumbers(getReceiptsByBook(req[q].book))
           found == ScanFrom(receiptBook.startingReceiptNumber,
                             receiptBook.endingReceiptNumber, usedNumbers)
       IN req' = [req EXCEPT ![q] =
                    IF found.ok
                    THEN [@ EXCEPT !.pc = "haveNumber", !.rb = {}, !.num = found.num]
                    ELSE [@ EXCEPT !.pc = "done", !.rb = {}, !.result = "exhausted"]]
    /\ UNCHANGED <<store, restore, calls>>

\* The caller types the receipt number: no allocation request is made.
BeginSupplied(q, u, b, n) ==
    /\ req[q].pc = "idle"
    /\ Authenticated(u)
    /\ req' = [req EXCEPT ![q] = [IdleReq EXCEPT !.pc = "haveNumber", !.user = u,
                                                 !.book = b, !.num = n]]
    /\ UNCHANGED <<store, restore, calls>>

\* POST /api/receipts: the collector's assignment check, then
\* storage.createReceipt, one INSERT; the database rejects a row whose
\* foreign keys do not resolve (500).  Nothing else is checked.
PostReceipt(q, t, amount) ==
    /\ req[q].pc = "haveNumber"
    /\ LET u == req[q].user
           rb == getReceiptBook(req[q].book)
           row == [id |-> FreshId(receipts), receiptNumber |-> req[q].num,
                   receiptBookId |-> req[q].book, taskId |-> t,
                   amount |-> amount, enteredBy |-> u]
       IN IF ~Authenticated(u)
          THEN /\ req' = [req EXCEPT ![q].pc = "done", ![q].result = "unauthorized"]
               /\ UNCHANGED receipts
          ELSE IF /\ RoleOf(u) = "cash_collector"
                  /\ (rb = {} \/ \E b \in rb : b.assignedTo # u)
          THEN /\ req' = [req EXCEPT ![q].pc = "done", ![q].result = "forbidden"]
               /\ UNCHANGED receipts
          ELSE IF ~ReceiptRowOk(row)
          THEN /\ req' = [req EXCEPT ![q].pc = "done", ![q].result = "error"]
               /\ UNCHANGED receipts
          ELSE /\ Cardinality(receipts) < MaxReceipts
               /\ receipts' = receipts \cup {row}
               /\ req' = [req EXCEPT ![q].pc = "done", ![q].result = "created"]
    /\ UNCHANGED <<users, tasks, expenseTypes, receiptBooks, expenses, publishedReports, restore, calls>>

\* The response reaches the client.
Return(q) ==
    /\ req[q].pc = "done"
    /\ req' = [req EXCEPT ![q] = IdleReq]
    /\ UNCHANGED <<store, restore, calls>>

\* ------------------------------------------------------------------ receipt and book routes
\* PUT /api/receipts/:id with storage.updateReceipt: a partial update of
\* the row; a collector may edit only receipts they entered.
PutReceipt(u, id, n, b, t) ==
    /\ Authenticated(u)
    /\ \E old \in receipts :
         /\ old.id = id
         /\ RoleOf(u) = "cash_collector" => old.enteredBy = u
         /\ LET row == [old EXCEPT !.receiptNumber = n, !.receiptBookId = b, !.taskId = t]
            IN /\ row # old
               /\ ReceiptRowOk(row)
               /\ receipts' = (receipts \ {old}) \cup {row}
    /\ UNCHANGED <<users, tasks, expenseTypes, receiptBooks, expenses, publishedReports, req, restore, calls>>

\* DELETE /api/receipts/:id with storage.deleteReceipt.
DeleteReceipt(u, id) ==
    /\ IsAdminOrManager(u)
    /\ id \in Ids(receipts)
    /\ receipts' = {r \in receipts : r.id # id}
    /\ UNCHANGED <<users, tasks, expenseTypes, receiptBooks, expenses, publishedReports, req, restore, calls>>

\* POST /api/receipt-books with storage.createReceiptBook: the book number
\* must be new; totalReceipts is computed from the bounds.
PostReceiptBook(u, bookNumber, t, assignedTo, starting, ending) ==
    /\ IsAdminOrManager(u)
    /\ getReceiptBookByNumber(bookNumber) = {}
    /\ Cardinality(receiptBooks) < MaxBooks
    /\ LET row == [id |-> FreshId(receiptBooks), bookNumber |-> bookNumber,
                   taskId |-> t, assignedTo |-> assignedTo,
                   startingReceiptNumber |-> starting, endingReceiptNumber |-> ending,
                   totalReceipts |-> ending - starting + 1, createdBy |-> u]
       IN /\ ReceiptBookRowOk(row)
          /\ receiptBooks' = receiptBooks \cup {row}
    /\ UNCHANGED <<users, tasks, expenseTypes, receipts, expenses, publishedReports, req, restore, calls>>

\* PUT /api/receipt-books/:id with storage.updateReceiptBook: a partial
\* update; totalReceipts is not a field of the insert schema, so it is never
\* part of the update.
PutReceiptBook(u, id, t, assignedTo, starting, ending) ==
    /\ IsAdminOrManager(u)
    /\ \E old \in receiptBooks :
         /\ old.id = id
         /\ LET row == [old EXCEPT !.taskId = t, !.assignedTo = assignedTo,
                                   !.startingReceiptNumber = starting,
                                   !.endingReceiptNumber = ending]
            IN /\ row # old
               /\ ReceiptBookRowOk(row)
               /\ receiptBooks' = (receiptBooks \ {old}) \cup {row}
    /\ UNCHANGED <<users, tasks, expenseTypes, receipts, expenses, publishedReports, req, restore, calls>>

\* DELETE /api/receipt-books/:id with storage.deleteReceiptBook: refused by
\* the database while a receipt references the book.
DeleteReceiptBook(u, id) ==
    /\ IsAdminOrManager(u)
    /\ id \in Ids(receiptBooks)
    /\ getReceiptsByBook(id) = {}
    /\ receiptBooks' = {b \in receiptBooks : b.id # id}
    /\ UNCHANGED <<users, tasks, expenseTypes, receipts, expenses, publishedReports, req, restore, calls>>

\* POST /api/expenses with storage.createExpense.
PostExpense(u, et, amount) ==
    /\ IsAdminOrManager(u)
    /\ Cardinality(expenses) < MaxExpenses
    /\ LET row == [id |-> FreshId(expenses), expenseTypeId |-> et, amount |-> amount,
                   createdBy |-> u]
       IN /\ ExpenseRowOk(row)
          /\ expenses' = expenses \cup {row}
    /\ UNCHANGED <<users, tasks, expenseTypes, receiptBooks, receipts, publishedReports, req, restore, calls>>

\* DELETE /api/expenses/:id with storage.deleteExpense.
DeleteExpense(u, id) ==
    /\ IsAdminOrManager(u)
    /\ id \in Ids(expenses)
    /\ expenses' = {e \in expenses : e.id # id}
    /\ UNCHANGED <<users, tasks, expenseTypes, receiptBooks, receipts, publishedReports, req, restore, calls>>

\* ------------------------------------------------------------------ financial calculations
\* sum(amount) over the rows of a select; 0 stands for the NULL of no rows,
\* which Number(total || 0) turns into 0.
RECURSIVE sum(_)
sum(rows) ==
    IF rows = {} THEN 0
    ELSE LET row == CHOOSE r \in rows : TRUE
         IN row.amount + sum(rows \ {row})

getTotalIncome == sum(receipts)
getTotalExpenses == sum(expenses)

\* The side of a left join that matched nothing.
NullRow == [id |-> 0, amount |-> 0]

\* tasks LEFT JOIN receipts ON tasks.id = receipts.task_id
\*       LEFT JOIN receipt_books ON tasks.id = receipt_books.task_id:
\* for a task, every pair of a matching receipt and a matching book, with
\* NullRow on a side that has no match.  The rows are numbered so that two
\* joined rows with equal amounts stay two rows.
JoinedRows(task) ==
    LET matchedReceipts == {r \in receipts : r.taskId = task.id}
        matchedBooks == {b \in receiptBooks : b.taskId = task.id}
        left == IF matchedReceipts = {} THEN {NullRow} ELSE matchedReceipts
        right == IF matchedBooks = {} THEN {NullRow} ELSE matchedBooks
    IN {[receipt |-> r.id, book |-> b.id, amount |-> r.amount] : r \in left, b \in right}

\* getIncomeByTask: GROUP BY tasks.id with sum(receipts.amount) and
\* count(receipt_books.id) over the joined rows of the group.
getIncomeByTask ==
    {[taskId |-> task.id,
      total |-> sum(JoinedRows(task)),
      receiptBookCount |-> Cardinality({j \in JoinedRows(task) : j.book # 0})]
       : task \in tasks}

\* getLatestPublishedReport: ORDER BY published_at DESC LIMIT 1 (none or one
\* row; any of the latest when several share the timestamp).
getLatestPublishedReport ==
    {r \in publishedReports : \A o \in publishedReports : o.publishedAt <= r.publishedAt}

\* JSON.stringify(reportData) as stored in report_data, and JSON.parse of it.
stringify(value) == <<"json", value>>
parse(text) == text[2]

\* CURRENT_TIMESTAMP of an insert into published_reports: later than the
\* timestamp of every report inserted before it.
CurrentTimestamp ==
    IF publishedReports = {} THEN 1
    ELSE 1 + (CHOOSE t \in {r.publishedAt : r \in publishedReports} :
                 \A r \in publishedReports : r.publishedAt <= t)

\* ------------------------------------------------------------------ restore
\* The tables by name, for the statements restoreFromBackup issues.
TableOf(name) ==
    CASE name = "users" -> users
      [] name = "tasks" -> tasks
      [] name = "expenseTypes" -> expenseTypes
      [] name = "receiptBooks" -> receiptBooks
      [] name = "receipts" -> receipts
      [] name = "expenses" -> expenses
      [] name = "publishedReports" -> publishedReports

\* One statement replaces the content of the named table and leaves the
\* other tables alone.
SetTable(name, rows) ==
    /\ users' = IF name = "users" THEN rows ELSE users
    /\ tasks' = IF name = "tasks" THEN rows ELSE tasks
    /\ expenseTypes' = IF name = "expenseTypes" THEN rows ELSE expenseTypes
    /\ receiptBooks' = IF name = "receiptBooks" THEN rows ELSE receiptBooks
    /\ receipts' = IF name = "receipts" THEN rows ELSE receipts
    /\ expenses' = IF name = "expenses" THEN rows ELSE expenses
    /\ publishedReports' = IF name = "publishedReports" THEN rows ELSE publishedReports

\* references(() => t.id) without onDelete: a row of t cannot be deleted
\* while a row of another table names it.
Referenced(name) ==
    CASE name = "users" ->
            \/ \E r \in tasks \cup expenseTypes \cup expenses : r.createdBy \in Ids(users)
            \/ \E r \in receiptBooks : r.createdBy \in Ids(users) \/ r.assignedTo \in Ids(users)
            \/ \E r \in receipts : r.enteredBy \in Ids(users)
            \/ \E r \in publishedReports : r.publishedBy \in Ids(users)
      [] name = "tasks" ->
            \E r \in receiptBooks \cup receipts : r.taskId \in Ids(tasks)
      [] name = "receiptBooks" -> \E r \in receipts : r.receiptBookId \in Ids(receiptBooks)
      [] name = "expenseTypes" -> \E r \in expenses : r.expenseTypeId \in Ids(expenseTypes)
      [] OTHER -> FALSE

\* The tables the foreign keys of a table point to.
References(name) ==
    CASE name = "tasks" -> {"users"}
      [] name = "expenseTypes" -> {"users"}
      [] name = "receiptBooks" -> {"tasks", "users"}
      [] name = "receipts" -> {"receiptBooks", "tasks", "users"}
      [] name = "expenses" -> {"expenseTypes", "users"}
      [] name = "publishedReports" -> {"users"}
      [] OTHER -> {}

\* One multi-row INSERT: primary keys (and book numbers) are unique among
\* the new rows and the rows of the table, and every foreign key resolves.
InsertAccepted(name, rows) ==
    /\ Cardinality(Ids(rows)) = Cardinality(rows)
    /\ Ids(rows) \cap Ids(TableOf(name)) = {}
    /\ CASE name = "users" -> TRUE
         [] name = "tasks" -> \A r \in rows : TaskRowOk(r)
         [] name = "expenseTypes" -> \A r \in rows : ExpenseTypeRowOk(r)
         [] name = "receiptBooks" ->
               /\ \A r \in rows : ReceiptBookRowOk(r)
               /\ \A r1 \in rows \cup receiptBooks, r2 \in rows :
                    r1.bookNumber = r2.bookNumber => r1 = r2
         [] name = "receipts" -> \A r \in rows : ReceiptRowOk(r)
         [] name = "expenses" -> \A r \in rows : ExpenseRowOk(r)
         [] name = "publishedReports" -> \A r \in rows : PublishedReportRowOk(r)

\* The three Promise.all batches of deletes, in the order they are awaited.
DeleteBatchesKeepUsers ==
    << {"receipts", "expenses", "publishedReports"}, {"receiptBooks", "expenseTypes"},
       {"tasks"} >>
DeleteBatches ==
    << {"receipts", "expenses", "publishedReports"}, {"receiptBooks", "expenseTypes"},
       {"tasks", "users"} >>

\* An insert phase that writes expense types before tasks.
InsertOrderTypesFirst ==
    << "users", "expenseTypes", "tasks", "receiptBooks", "receipts", "expenses",
       "publishedReports" >>

\* The order of the guarded inserts.
InsertOrder ==
    << "users", "tasks", "expenseTypes", "receiptBooks", "receipts", "expenses",
       "publishedReports" >>

EmptyData ==
    [users |-> {}, tasks |-> {}, expenseTypes |-> {}, receiptBooks |-> {},
     receipts |-> {}, expenses |-> {}, publishedReports |-> {}]

\* The collections of the backup document as a store.  A collection the
\* document leaves out and an empty one both fail the ?.length guard.
DataAsStore(data) ==
    << data.users, data.tasks, data.expenseTypes, data.receiptBooks, data.receipts,
       data.expenses, data.publishedReports >>

\* The POST /api/restore requests that may be in flight at once.
RestoreCalls == {1, 2}

\* No restore call is running.  pre is the store as the running call found it.
IdleRestore ==
    [pc |-> "idle", batch |-> 0, pending |-> {}, step |-> 0, data |-> EmptyData,
     pre |-> DataAsStore(EmptyData)]

\* POST /api/restore by an admin: restoreFromBackup(req.body) starts and
\* issues the first batch of deletes.  Nothing looks at other calls in flight.
RestoreBegin(k, u, data) ==
    /\ restore[k].pc = "idle"
    /\ Authenticated(u) /\ RoleOf(u) = "admin"
    /\ restore' = [restore EXCEPT ![k] =
                     [pc |-> "deleting", batch |-> 1, pending |-> DeleteBatches[1],
                      step |-> 0, data |-> data, pre |-> store]]
    /\ UNCHANGED <<store, req, calls>>

\* One db.delete(table) of the batch in flight executes; the statements of a
\* batch execute in any order.  A refused delete rejects the Promise.all and
\* restoreFromBackup throws, while the other deletes of the batch still run.
\* When the last delete of a batch succeeds the next batch is issued, and
\* after the third batch the inserts begin.
RestoreDelete(k, name) ==
    /\ restore[k].pc \in {"deleting", "failed"}
    /\ name \in restore[k].pending
    /\ LET left == restore[k].pending \ {name} IN
       IF Referenced(name)
       THEN /\ restore' = [restore EXCEPT ![k].pc = "failed", ![k].pending = left]
            /\ UNCHANGED store
       ELSE /\ SetTable(name, {})
            /\ restore' =
                 IF restore[k].pc = "failed" \/ left # {}
                 THEN [restore EXCEPT ![k].pending = left]
                 ELSE IF restore[k].batch < Len(DeleteBatches)
                 THEN [restore EXCEPT ![k].batch = @ + 1,
                                      ![k].pending = DeleteBatches[restore[k].batch + 1]]
                 ELSE [restore EXCEPT ![k].pc = "inserting", ![k].pending = {},
                                      ![k].step = 1]
    /\ UNCHANGED <<req, calls>>

\* The next guarded insert: skipped when the collection is missing or
\* empty, one INSERT of all its rows otherwise; a refused INSERT makes
\* restoreFromBackup throw.  After the last one the call returns.
RestoreInsert(k) ==
    /\ restore[k].pc = "inserting"
    /\ LET name == InsertOrder[restore[k].step]
           rows == restore[k].data[name]
           after == IF restore[k].step < Len(InsertOrder)
                    THEN [restore EXCEPT ![k].step = @ + 1]
                    ELSE [restore EXCEPT ![k].pc = "ok"]
       IN IF rows = {}
          THEN /\ restore' = after
               /\ UNCHANGED store
          ELSE IF InsertAccepted(name, rows)
          THEN /\ SetTable(name, TableOf(name) \cup rows)
               /\ restore' = after
          ELSE /\ restore' = [restore EXCEPT ![k].pc = "failed"]
               /\ UNCHANGED store
    /\ UNCHANGED <<req, calls>>

\* ------------------------------------------------------------------ handlers that read
\* The handlers that collect several query results before they answer: the
\* backup export, the financial summary (and the report built from it), and
\* the public report page.
TableNames ==
    {"users", "tasks", "expenseTypes", "receiptBooks", "receipts", "expenses",
     "publishedReports"}

\* GET /api/backup/csv and GET /api/backup/sql: no export is running.
IdleBackup ==
    [pc |-> "idle", format |-> "none", pending |-> {}, data |-> EmptyData, sql |-> <<>>]

\* GET /api/financials and POST /api/reports/publish: not running.
IdleFin ==
    [pc |-> "idle", route |-> "none", user |-> 0, pending |-> {}, totalIncome |-> 0,
     totalExpenses |-> 0, balanceIncome |-> 0, currentBalance |-> 0, incomeByTask |-> {}]

\* GET /api/reports/published: nothing answered yet.
NoResponse == [status |-> 0, report |-> {}, publishedAt |-> 0]

IdleCalls == [backup |-> IdleBackup, fin |-> IdleFin, public |-> NoResponse]

\* An admin or manager asks for a backup: getAllDataForBackup issues its
\* seven selects at once (Promise.all).
BackupBegin(u, format) ==
    /\ calls.backup.pc \in {"idle", "done"}
    /\ IsAdminOrManager(u)
    /\ calls' = [calls EXCEPT !.backup =
                   [IdleBackup EXCEPT !.pc = "reading", !.format = format,
                                      !.pending = TableNames]]
    /\ UNCHANGED <<store, req, restore>>

\* One of the seven selects executes and returns the rows the table holds
\* at that moment; the selects execute in any order.
BackupRead(name) ==
    /\ calls.backup.pc = "reading"
    /\ name \in calls.backup.pending
    /\ calls' = [calls EXCEPT !.backup.data[name] = TableOf(name),
                              !.backup.pending = @ \ {name},
                              !.backup.pc = IF calls.backup.pending = {name}
                                            THEN "collected" ELSE "reading"]
    /\ UNCHANGED <<store, req, restore>>

\* The statements GET /api/backup/sql writes: the loop over backupData.users
\* appends one INSERT INTO users per user, in the order getAllUsers returned
\* them (creation order, which the ids stand for), with the columns the
\* template names.  No other loop follows it.
RECURSIVE UserInserts(_)
UserInserts(rows) ==
    IF rows = {} THEN <<>>
    ELSE LET user == CHOOSE r \in rows : \A o \in rows : r.id <= o.id
         IN <<[table |-> "users", values |-> [id |-> user.id, role |-> user.role]]>>
            \o UserInserts(rows \ {user})

sqlContent(backupData) == UserInserts(backupData.users)

\* The response is sent: res.json(backupData) for the csv route, the
\* generated statements for the sql route.
BackupRespond ==
    /\ calls.backup.pc = "collected"
    /\ calls' = [calls EXCEPT !.backup.pc = "done",
                              !.backup.sql = IF calls.backup.format = "sql"
                                             THEN sqlContent(calls.backup.data)
                                             ELSE <<>>]
    /\ UNCHANGED <<store, req, restore>>

\* The admin uploads to POST /api/restore the document the csv route returned.
RestoreExported(k, u) ==
    /\ calls.backup.pc = "done"
    /\ calls.backup.format = "csv"
    /\ RestoreBegin(k, u, calls.backup.data)

\* GET /api/financials (any authenticated user) or POST /api/reports/publish
\* (admin or manager): Promise.all starts the four storage calls, each of
\* which issues its first select; getCurrentBalance awaits two selects in turn.
FinBegin(u, route) ==
    /\ calls.fin.pc \in {"idle", "done", "error"}
    /\ IF route = "publish" THEN IsAdminOrManager(u) ELSE Authenticated(u)
    /\ calls' = [calls EXCEPT !.fin =
                   [IdleFin EXCEPT !.pc = "querying", !.route = route, !.user = u,
                                   !.pending = {"getTotalIncome", "getTotalExpenses",
                                                "getCurrentBalance.totalIncome",
                                                "getIncomeByTask"}]]
    /\ UNCHANGED <<store, req, restore>>

\* One pending select executes on the store as it is at that moment.  The
\* second select of getCurrentBalance is issued when its first has returned,
\* and its return value is the difference of the two.  When every call has
\* returned the handler answers, or goes on to createPublishedReport.
FinQuery(name) ==
    /\ calls.fin.pc = "querying"
    /\ name \in calls.fin.pending
    /\ LET left == (calls.fin.pending \ {name}) \cup
                   (IF name = "getCurrentBalance.totalIncome"
                    THEN {"getCurrentBalance.totalExpenses"} ELSE {})
           fin == CASE name = "getTotalIncome" ->
                         [calls.fin EXCEPT !.totalIncome = getTotalIncome]
                    [] name = "getTotalExpenses" ->
                         [calls.fin EXCEPT !.totalExpenses = getTotalExpenses]
                    [] name = "getCurrentBalance.totalIncome" ->
                         [calls.fin EXCEPT !.balanceIncome = getTotalIncome]
                    [] name = "getCurrentBalance.totalExpenses" ->
                         [calls.fin EXCEPT !.currentBalance =
                                              calls.fin.balanceIncome - getTotalExpenses]
                    [] name = "getIncomeByTask" ->
                         [calls.fin EXCEPT !.incomeByTask = getIncomeByTask]
       IN calls' = [calls EXCEPT !.fin =
                      [fin EXCEPT !.pending = left,
                                  !.pc = IF left # {} THEN "querying"
                                         ELSE IF fin.route = "publish" THEN "insert"
                                         ELSE "done"]]
    /\ UNCHANGED <<store, req, restore>>

\* The object both routes build from the four results.
ReportData(fin) ==
    [totalIncome |-> fin.totalIncome, totalExpenses |-> fin.totalExpenses,
     currentBalance |-> fin.currentBalance, incomeByTask |-> fin.incomeByTask]

\* A publish that keeps only the report it writes.
PublishReplaces ==
    /\ calls.fin.pc = "insert"
    /\ LET row == [id |-> FreshId(publishedReports),
                   reportData |-> stringify(ReportData(calls.fin)),
                   publishedBy |-> calls.fin.user, publishedAt |-> CurrentTimestamp]
       IN /\ publishedReports' = {row}
          /\ calls' = [calls EXCEPT !.fin = [IdleFin EXCEPT !.pc = "done",
                                                          !.route = "publish"]]
    /\ UNCHANGED <<users, tasks, expenseTypes, receiptBooks, receipts, expenses, req, restore>>

\* POST /api/reports/publish, storage.createPublishedReport: one INSERT of
\* the stringified reportData; refused (500) when publishedBy names no user.
\* The answer is the inserted row; the four results die with the handler.
PublishInsert ==
    /\ calls.fin.pc = "insert"
    /\ LET row == [id |-> FreshId(publishedReports),
                   reportData |-> stringify(ReportData(calls.fin)),
                   publishedBy |-> calls.fin.user, publishedAt |-> CurrentTimestamp]
       IN IF PublishedReportRowOk(row)
          THEN /\ Cardinality(publishedReports) < MaxReports
               /\ publishedReports' = publishedReports \cup {row}
               /\ calls' = [calls EXCEPT !.fin = [IdleFin EXCEPT !.pc = "done",
                                                               !.route = "publish"]]
          ELSE /\ UNCHANGED publishedReports
               /\ calls' = [calls EXCEPT !.fin = [IdleFin EXCEPT !.pc = "error",
                                                               !.route = "publish"]]
    /\ UNCHANGED <<users, tasks, expenseTypes, receiptBooks, receipts, expenses, req, restore>>

\* A public page that computes the totals from the ledger when it is asked.
GetPublishedLive ==
    /\ calls' = [calls EXCEPT !.public =
                   [status |-> 200,
                    report |-> {[totalIncome |-> getTotalIncome,
                                 totalExpenses |-> getTotalExpenses,
                                 currentBalance |-> getTotalIncome - getTotalExpenses,
                                 incomeByTask |-> getIncomeByTask]},
                    publishedAt |-> CurrentTimestamp]]
    /\ UNCHANGED <<store, req, restore>>

\* GET /api/reports/published (no authentication): 404 when there is no
\* report, otherwise the parsed reportData of the latest report with its
\* publishedAt.
GetPublished ==
    /\ IF getLatestPublishedReport = {}
       THEN calls' = [calls EXCEPT !.public = [NoResponse EXCEPT !.status = 404]]
       ELSE \E latestReport \in getLatestPublishedReport :
              calls' = [calls EXCEPT !.public =
                          [status |-> 200, report |-> {parse(latestReport.reportData)},
                           publishedAt |-> latestReport.publishedAt]]
    /\ UNCHANGED <<store, req, restore>>

\* ------------------------------------------------------------------ the ledger specification
Init ==
    /\ users = SeedUsers
    /\ tasks = SeedTasks
    /\ expenseTypes = SeedExpenseTypes
    /\ receiptBooks = {}
    /\ receipts = {}
    /\ expenses = {}
    /\ publishedReports = {}
    /\ req = [q \in Reqs |-> IdleReq]
    /\ restore = [k \in RestoreCalls |-> IdleRestore]
    /\ calls = IdleCalls

Next ==
    \/ \E q \in Reqs, b \in 1..MaxBooks : BeginAuto(q, 1, b)
    \/ \E q \in Reqs : GetNextReadBook(q)
    \/ \E q \in Reqs : GetNextScan(q)
    \/ \E q \in Reqs, b \in 1..MaxBooks, n \in SuppliedNumbers : BeginSupplied(q, 1, b, n)
    \/ \E q \in Reqs : PostReceipt(q, 1, 1)
    \/ \E q \in Reqs : Return(q)
    \/ \E id \in 1..MaxReceipts, n \in SuppliedNumbers, b \in 1..MaxBooks : PutReceipt(1, id, n, b, 1)
    \/ \E id \in 1..MaxReceipts : DeleteReceipt(1, id)
    \/ \E bn \in 1..MaxBooks, s \in BookBounds, e \in BookBounds : PostReceiptBook(1, bn, 1, 0, s, e)
    \/ \E id \in 1..MaxBooks, s \in BookBounds, e \in BookBounds : PutReceiptBook(1, id, 1, 0, s, e)
    \/ \E id \in 1..MaxBooks : DeleteReceiptBook(1, id)

Spec == Init /\ [][Next]_vars

\* ------------------------------------------------------------------ two clients, one book
\* The store after the seed and one POST /api/receipt-books by the admin.
BookRow(id, starting, ending) ==
    [id |-> id, bookNumber |-> id, taskId |-> 1, assignedTo |-> 0,
     startingReceiptNumber |-> starting, endingReceiptNumber |-> ending,
     totalReceipts |-> ending - starting + 1, createdBy |-> 1]

InitAlloc ==
    /\ users = SeedUsers
    /\ tasks = SeedTasks
    /\ expenseTypes = SeedExpenseTypes
    /\ \E s \in BookBounds, e \in BookBounds : receiptBooks = {BookRow(1, s, e)}
    /\ receipts = {}
    /\ expenses = {}
    /\ publishedReports = {}
    /\ req = [q \in Reqs |-> IdleReq]
    /\ restore = [k \in RestoreCalls |-> IdleRestore]
    /\ calls = IdleCalls

NextAlloc ==
    \/ \E q \in Reqs : BeginAuto(q, 1, 1)
    \/ \E q \in Reqs : GetNextReadBook(q)
    \/ \E q \in Reqs : GetNextScan(q)
    \/ \E q \in Reqs : PostReceipt(q, 1, 1)
    \/ \E q \in Reqs : Return(q)

SpecAlloc == InitAlloc /\ [][NextAlloc]_vars

\* ------------------------------------------------------------------ the scan on drawn inputs
\* A store holding one book with any bounds and receipts of that book with any
\* set of numbers (every such store is reached by POST /api/receipts with typed
\* numbers), or no book at all.
ReceiptRow(id, n, b) ==
    [id |-> id, receiptNumber |-> n, receiptBookId |-> b, taskId |-> 1,
     amount |-> 1, enteredBy |-> 1]

ReceiptsNumbered(U, b) == { ReceiptRow(Cardinality({m \in U : m <= n}), n, b) : n \in U }

InitScan ==
    /\ users = SeedUsers
    /\ tasks = SeedTasks
    /\ expenseTypes = SeedExpenseTypes
    /\ \/ /\ receiptBooks = {}
          /\ receipts = {}
       \/ \E s \in 1..MaxScan, e \in 1..MaxScan, U \in SUBSET (0..(MaxScan + 1)) :
             /\ receiptBooks = {BookRow(1, s, e)}
             /\ receipts = ReceiptsNumbered(U, 1)
    /\ expenses = {}
    /\ publishedReports = {}
    /\ req = [q \in Reqs |-> IdleReq]
    /\ restore = [k \in RestoreCalls |-> IdleRestore]
    /\ calls = IdleCalls

NextScan ==
    \/ \E b \in 1..2 : BeginAuto(1, 1, b)
    \/ GetNextReadBook(1)
    \/ GetNextScan(1)
    \/ Return(1)

SpecScan == InitScan /\ [][NextScan]_vars

\* ------------------------------------------------------------------ one restore call
\* The stores a restore call is started on: the seeded store, with or
\* without a receipt book, a receipt of it, an expense and a published report.
ExpenseRow(id, et) == [id |-> id, expenseTypeId |-> et, amount |-> 1, createdBy |-> 1]
ReportRow(id) == [id |-> id, reportData |-> 0, publishedBy |-> 1, publishedAt |-> id]

InitRestore ==
    /\ users = SeedUsers
    /\ tasks = SeedTasks
    /\ expenseTypes = SeedExpenseTypes
    /\ receiptBooks \in {{}, {BookRow(1, 1, 2)}}
    /\ receipts \in {{}, {ReceiptRow(1, 1, 1)}}
    /\ receipts # {} => receiptBooks # {}
    /\ expenses \in {{}, {ExpenseRow(1, 1)}}
    /\ publishedReports \in {{}, {ReportRow(1)}}
    /\ req = [q \in Reqs |-> IdleReq]
    /\ restore = [k \in RestoreCalls |-> IdleRestore]
    /\ calls = IdleCalls

\* The backup documents uploaded: any choice of rows per collection from
\* rows with ids 1..MaxRows.  Receipt i is a receipt of book i; every other
\* reference names the row with id 1.
Documents ==
    [users : SUBSET {[id |-> i, role |-> "admin"] : i \in 1..MaxRows},
     tasks : SUBSET {[id |-> 1, createdBy |-> 1]},
     expenseTypes : SUBSET {[id |-> 1, createdBy |-> 1]},
     receiptBooks : SUBSET {BookRow(i, 1, 2) : i \in 1..MaxRows},
     receipts : SUBSET {ReceiptRow(i, 1, i) : i \in 1..MaxRows},
     expenses : SUBSET {ExpenseRow(1, 1)},
     publishedReports : SUBSET {ReportRow(1)}]

NextRestore ==
    \/ \E data \in Documents : RestoreBegin(1, 1, data)
    \/ \E name \in {"users", "tasks", "expenseTypes", "receiptBooks", "receipts",
                    "expenses", "publishedReports"} : RestoreDelete(1, name)
    \/ RestoreInsert(1)

SpecRestore == InitRestore /\ [][NextRestore]_vars

\* ================================================================== properties
Allocated(q) == req[q].auto /\ req[q].pc = "done" /\ req[q].result = "created"

\* C1: two receipt-entry requests against the same book, each taking its
\* number from getNextReceiptNumber and persisting it with createReceipt, never
\* both succeed with the same number.
C1_NoDoubleAllocation ==
    \A p \in Reqs, q \in Reqs :
        (p # q /\ Allocated(p) /\ Allocated(q) /\ req[p].book = req[q].book)
            => req[p].num # req[q].num

\* C2: no two receipts of the same book carry the same receiptNumber.
C2_UniqueInBook ==
    \A r1 \in receipts, r2 \in receipts :
        (r1.receiptBookId = r2.receiptBookId /\ r1.receiptNumber = r2.receiptNumber)
            => r1 = r2

\* C3: every receipt's number lies within the bounds of its book.
C3_InRange ==
    \A r \in receipts : \A b \in getReceiptBook(r.receiptBookId) :
        /\ b.startingReceiptNumber <= r.receiptNumber
        /\ r.receiptNumber <= b.endingReceiptNumber

\* C4: a POST /api/receipts with a typed number outside the book's bounds, or
\* one already held by a receipt of the book, fails and persists nothing.
C4_SuppliedNumberValidated ==
    [][\A q \in Reqs :
          (req[q].pc = "haveNumber" /\ ~req[q].auto /\ req'[q].pc = "done")
          => \A b \in getReceiptBook(req[q].book) :
               ( \/ req[q].num < b.startingReceiptNumber
                 \/ req[q].num > b.endingReceiptNumber
                 \/ req[q].num \in UsedNumbers(getReceiptsByBook(b.id)) )
               => (req'[q].result # "created" /\ receipts' = receipts)]_vars

\* What getNextReceiptNumber returns for book row b when the receipts table is rs.
NextNumberFor(b, rs) ==
    ScanFrom(b.startingReceiptNumber, b.endingReceiptNumber,
             UsedNumbers({r \in rs : r.receiptBookId = b.id}))

\* C6: after deleteReceipt removes the receipt numbered n of a book, the next
\* getNextReceiptNumber for the book returns n whenever every number of
\* [startingReceiptNumber, n-1] is still in use.
C6_FreedNumberReused ==
    [][\A r \in receipts :
          (receipts' = receipts \ {r} /\ receiptBooks' = receiptBooks)
          => \A b \in getReceiptBook(r.receiptBookId) :
               LET rest == UsedNumbers({x \in receipts' : x.receiptBookId = b.id})
               IN (\A k \in b.startingReceiptNumber..(r.receiptNumber - 1) : k \in rest)
                  => NextNumberFor(b, receipts') = [ok |-> TRUE, num |-> r.receiptNumber]]_vars

\* The lowest number of the range the used set does not hold, as a set
\* (empty when the range is exhausted).
LowestFree(starting, ending, usedNumbers) ==
    LET free == {n \in starting..ending : n \notin usedNumbers}
    IN {n \in free : \A m \in free : n <= m}

\* C5: when some number of the book's range is unused, getNextReceiptNumber
\* returns exactly the lowest unused number of the range.
C5_LowestFree ==
    [][\A q \in Reqs :
          (req[q].pc = "getReceipts" /\ req'[q].pc # "getReceipts")
          => \A b \in req[q].rb :
               LET low == LowestFree(b.startingReceiptNumber, b.endingReceiptNumber,
                                     UsedNumbers(getReceiptsByBook(req[q].book)))
               IN low # {} => (req'[q].pc = "haveNumber" /\ req'[q].num \in low)]_vars

\* A number was allocated past a used one: the scan skipped at least one number.
C5_Witness ==
    /\ req[1].pc = "haveNumber" /\ req[1].auto
    /\ \E b \in getReceiptBook(req[1].book) :
         /\ req[1].num > b.startingReceiptNumber
         /\ req[1].num < b.endingReceiptNumber

\* C7: with every number of the range in use getNextReceiptNumber fails and
\* returns no number; with 1 and 3 of [1,3] in use it returns 2; for a book id
\* that names no book it fails as well.
C7_ExhaustedOrMissing ==
    [][\A q \in Reqs :
          /\ (req[q].pc = "getReceipts" /\ req'[q].pc # "getReceipts")
             => \A b \in req[q].rb :
                  LET used == UsedNumbers(getReceiptsByBook(req[q].book))
                      range == b.startingReceiptNumber..b.endingReceiptNumber
                  IN /\ range \subseteq used
                        => (req'[q].pc = "done" /\ req'[q].result = "exhausted")
                     /\ (range = 1..3 /\ range \cap used = {1, 3})
                        => (req'[q].pc = "haveNumber" /\ req'[q].num = 2)
          /\ (req[q].pc = "getBook" /\ req'[q].pc # "getBook"
                /\ getReceiptBook(req[q].book) = {})
             => (req'[q].pc = "done" /\ req'[q].result = "book_not_found")]_vars

\* The book [1,3] with 1, 2 and 3 in use reported exhaustion.
C7_Witness ==
    /\ req[1].pc = "done" /\ req[1].result = "exhausted"
    /\ \E b \in getReceiptBook(req[1].book) :
         /\ b.startingReceiptNumber = 1 /\ b.endingReceiptNumber = 3
         /\ {1, 2, 3} \subseteq UsedNumbers(getReceiptsByBook(b.id))

\* Some foreign key of the document names no row of the document.
Dangling(data) ==
    \/ \E r \in data.tasks \cup data.expenseTypes \cup data.expenses \cup data.receiptBooks :
         r.createdBy \notin Ids(data.users)
    \/ \E r \in data.receiptBooks :
         r.taskId \notin Ids(data.tasks) \/ (r.assignedTo # 0 /\ r.assignedTo \notin Ids(data.users))
    \/ \E r \in data.receipts :
         \/ r.receiptBookId \notin Ids(data.receiptBooks)
         \/ r.taskId \notin Ids(data.tasks)
         \/ r.enteredBy \notin Ids(data.users)
    \/ \E r \in data.expenses : r.expenseTypeId \notin Ids(data.expenseTypes)
    \/ \E r \in data.publishedReports : r.publishedBy \notin Ids(data.users)

RestoreEnded(k) == restore[k].pc \in {"ok", "failed"} /\ restore[k].pending = {}

\* C8: a restore call that fails leaves the store as it found it, and one
\* that succeeds leaves the store equal to the document.
C8_AllOrNothing ==
    /\ restore[1].pc = "failed" => store = restore[1].pre
    /\ restore[1].pc = "ok" => store = DataAsStore(restore[1].data)

\* C9: a document with a foreign key that does not resolve within the
\* document is rejected and every table is as it was before the call.
C9_DanglingRejectedUnchanged ==
    (RestoreEnded(1) /\ Dangling(restore[1].data))
        => (restore[1].pc = "failed" /\ store = restore[1].pre)

\* C10: after a restore call that succeeded, run with no other request in
\* between its statements, each of the seven tables holds exactly the rows
\* of the document's collection (none when the collection is missing or empty).
C10_RestoreReplaces ==
    restore[1].pc = "ok" =>
        /\ users = restore[1].data.users
        /\ tasks = restore[1].data.tasks
        /\ expenseTypes = restore[1].data.expenseTypes
        /\ receiptBooks = restore[1].data.receiptBooks
        /\ receipts = restore[1].data.receipts
        /\ expenses = restore[1].data.expenses
        /\ publishedReports = restore[1].data.publishedReports

\* A restore succeeded on a store that held rows the document does not hold,
\* with a document that leaves some collections empty and fills others.
C10_Witness ==
    /\ restore[1].pc = "ok"
    /\ \E r \in restore[1].pre[1] : r \notin restore[1].data.users
    /\ restore[1].pre[5] # {} /\ restore[1].data.receipts = {}
    /\ restore[1].data.tasks # {}

\* ------------------------------------------------------------------ export, then restore of the export
\* On each store of InitRestore, with nothing else running: one export by the
\* csv route, then one restore of the exported document.
NextRoundTrip ==
    \/ calls.backup.pc = "idle" /\ BackupBegin(1, "csv")
    \/ \E name \in TableNames : BackupRead(name)
    \/ BackupRespond
    \/ RestoreExported(1, 1)
    \/ \E name \in TableNames : RestoreDelete(1, name)
    \/ RestoreInsert(1)

SpecRoundTrip == InitRestore /\ [][NextRoundTrip]_vars

\* C11: restoring the document getAllDataForBackup returned, with no other
\* operation running, succeeds and leaves every table as it was.
C11_RoundTrip ==
    (RestoreEnded(1) /\ restore[1].data = calls.backup.data)
        => (restore[1].pc = "ok" /\ store = restore[1].pre)

\* ------------------------------------------------------------------ two restore calls
\* Two admins (or one admin twice) post a document each: the empty document
\* or the document with one row in every collection.
WholeDocuments ==
    {d \in Documents : \A name \in TableNames : (d[name] = {}) = (d.users = {})}

NextRestore2 ==
    \/ \E k \in RestoreCalls, data \in WholeDocuments : RestoreBegin(k, 1, data)
    \/ \E k \in RestoreCalls, name \in TableNames : RestoreDelete(k, name)
    \/ \E k \in RestoreCalls : RestoreInsert(k)

SpecRestore2 == InitRestore /\ [][NextRestore2]_vars

\* restoreFromBackup has been entered and has not returned or thrown.
RestoreRunning(k) == restore[k].pc \in {"deleting", "inserting"}

\* C12: a restore call started while another is in progress is rejected and
\* changes nothing: two restore calls are never in progress together and their
\* statements never interleave.
C12_RestoreExclusive ==
    \A j \in RestoreCalls, k \in RestoreCalls :
        (j # k /\ RestoreRunning(j)) => ~RestoreRunning(k)

\* ------------------------------------------------------------------ a restore call among other requests
\* One restore call, one GET /api/financials and one POST /api/receipts with
\* a typed number, in any interleaving.
NextRestoreLedger ==
    \/ \E data \in WholeDocuments : RestoreBegin(1, 1, data)
    \/ \E name \in TableNames : RestoreDelete(1, name)
    \/ RestoreInsert(1)
    \/ calls.fin.pc = "idle" /\ FinBegin(1, "financials")
    \/ \E name \in calls.fin.pending : FinQuery(name)
    \/ BeginSupplied(1, 1, 1, 2)
    \/ PostReceipt(1, 1, 1)

SpecRestoreLedger == InitRestore /\ [][NextRestoreLedger]_vars

\* The store is neither the dataset the running restore call found nor the
\* document it restores.
MidRestore(k) ==
    /\ RestoreRunning(k)
    /\ store # restore[k].pre
    /\ store # DataAsStore(restore[k].data)

\* C13: while a restore call is between the two datasets, no select of an
\* aggregation read executes and no receipt is created.
C13_RestoreStopsTheWorld ==
    [][(\E k \in RestoreCalls : MidRestore(k))
          => /\ ~(calls.fin.pc = "querying" /\ calls'.fin # calls.fin)
             /\ \A q \in Reqs : ~(req[q].pc = "haveNumber" /\ req'[q].pc = "done")]_vars

\* ------------------------------------------------------------------ an export among mutations
\* From the seeded store: backup exports by either route while the admin
\* creates and deletes a receipt book, receipts of it and an expense.
NextExport ==
    \/ \E format \in {"csv", "sql"} : BackupBegin(1, format)
    \/ \E name \in TableNames : BackupRead(name)
    \/ BackupRespond
    \/ PostReceiptBook(1, 1, 1, 0, 1, MaxNum)
    \/ DeleteReceiptBook(1, 1)
    \/ BeginSupplied(1, 1, 1, 1)
    \/ PostReceipt(1, 1, 1)
    \/ Return(1)
    \/ \E id \in 1..MaxReceipts : DeleteReceipt(1, id)
    \/ PostExpense(1, 1, 1)
    \/ \E id \in 1..MaxExpenses : DeleteExpense(1, id)

SpecExport == Init /\ [][NextExport]_vars

\* C14: the document getAllDataForBackup returns is the store of one
\* instant, so every foreign key of it resolves within it, also when
\* mutations commit between its seven selects.
C14_SnapshotConsistent ==
    calls.backup.pc \in {"collected", "done"} => ~Dangling(calls.backup.data)

\* The rows a sequence of insert statements encodes for a table, and the
\* position of a table in the dependency order of the inserts.
RowsEncoded(statements, name) ==
    {statements[i].values : i \in {j \in DOMAIN statements : statements[j].table = name}}

OrderOf(name) == CHOOSE i \in DOMAIN InsertOrder : InsertOrder[i] = name

\* C15: the statements GET /api/backup/sql sends encode exactly the rows of
\* all seven collections that GET /api/backup/csv sends for the same data,
\* as insert statements in the order users, tasks, expense types, receipt
\* books, receipts, expenses, published reports.
C15_SqlEncodesAllRows ==
    (calls.backup.pc = "done" /\ calls.backup.format = "sql") =>
        /\ \A name \in TableNames :
              RowsEncoded(calls.backup.sql, name) = calls.backup.data[name]
        /\ \A i \in DOMAIN calls.backup.sql, j \in DOMAIN calls.backup.sql :
              i < j => OrderOf(calls.backup.sql[i].table) <= OrderOf(calls.backup.sql[j].table)

\* ------------------------------------------------------------------ aggregation among mutations
\* From the seeded store with one receipt book: GET /api/financials and
\* POST /api/reports/publish (until a report exists) while two clients post
\* one receipt of amount 1 each, an expense of amount MaxAmount is created,
\* and receipts and the expense are deleted.
InitFinancials ==
    /\ users = SeedUsers
    /\ tasks = SeedTasks
    /\ expenseTypes = SeedExpenseTypes
    /\ receiptBooks = {BookRow(1, 1, MaxNum)}
    /\ receipts = {}
    /\ expenses = {}
    /\ publishedReports = {}
    /\ req = [q \in Reqs |-> IdleReq]
    /\ restore = [k \in RestoreCalls |-> IdleRestore]
    /\ calls = IdleCalls

NextFinancials ==
    \/ FinBegin(1, "financials")
    \/ publishedReports = {} /\ FinBegin(1, "publish")
    \/ \E name \in calls.fin.pending : FinQuery(name)
    \/ PublishInsert
    \/ \E q \in Reqs : BeginSupplied(q, 1, 1, q)
    \/ \E q \in Reqs : PostReceipt(q, 1, 1)
    \/ \E id \in 1..MaxReceipts : DeleteReceipt(1, id)
    \/ PostExpense(1, 1, MaxAmount)
    \/ \E id \in 1..MaxExpenses : DeleteExpense(1, id)

SpecFinancials == InitFinancials /\ [][NextFinancials]_vars

\* C16: the object GET /api/financials returns and every reportData that
\* POST /api/reports/publish stores satisfy
\* currentBalance = totalIncome - totalExpenses, also when receipts or
\* expenses are created or deleted between the selects.
C16_BalanceIdentity ==
    /\ (calls.fin.pc = "done" /\ calls.fin.route = "financials")
          => calls.fin.currentBalance = calls.fin.totalIncome - calls.fin.totalExpenses
    /\ \A r \in publishedReports :
          LET reportData == parse(r.reportData)
          IN reportData.currentBalance = reportData.totalIncome - reportData.totalExpenses

\* ------------------------------------------------------------------ the per-task aggregation on drawn stores
\* Stores the receipt and book routes reach from the seed: up to MaxJoin
\* receipt books, each of one of the first MaxJoin tasks, and up to MaxJoin
\* receipts, each of an existing book, with any of those tasks and any amount.
BookOfTask(id, t) == [BookRow(id, 1, MaxNum) EXCEPT !.taskId = t]
ReceiptOfTask(id, b, t, amount) == [ReceiptRow(id, id, b) EXCEPT !.taskId = t, !.amount = amount]

InitIncomeByTask ==
    /\ users = SeedUsers
    /\ tasks = SeedTasks
    /\ expenseTypes = SeedExpenseTypes
    /\ \E bookTask \in [1..MaxJoin -> 0..MaxJoin] :
          receiptBooks = {BookOfTask(id, bookTask[id]) : id \in {i \in 1..MaxJoin : bookTask[i] # 0}}
    /\ \E present \in SUBSET (1..MaxJoin) :
          \E b \in [present -> Ids(receiptBooks)], t \in [present -> 1..MaxJoin],
             amount \in [present -> Amounts] :
             receipts = {ReceiptOfTask(id, b[id], t[id], amount[id]) : id \in present}
    /\ expenses = {}
    /\ publishedReports = {}
    /\ req = [q \in Reqs |-> IdleReq]
    /\ restore = [k \in RestoreCalls |-> IdleRestore]
    /\ calls = IdleCalls

NextIncomeByTask ==
    \/ calls.fin.pc = "idle" /\ FinBegin(1, "financials")
    \/ \E name \in calls.fin.pending : FinQuery(name)

SpecIncomeByTask == InitIncomeByTask /\ [][NextIncomeByTask]_vars

\* The sum of total over the entries of an incomeByTask result.
RECURSIVE SumOfTotals(_)
SumOfTotals(entries) ==
    IF entries = {} THEN 0
    ELSE LET e == CHOOSE x \in entries : TRUE
         IN e.total + SumOfTotals(entries \ {e})

\* GET /api/financials has answered (no mutation ran since it began).
FinAnswered == calls.fin.pc = "done"

\* C17: on a quiescent store the totals of getIncomeByTask add up to
\* getTotalIncome, however many receipt books each task has.
C17_TotalsAddUp ==
    FinAnswered => SumOfTotals(calls.fin.incomeByTask) = calls.fin.totalIncome

\* C18: for every task, receiptBookCount is the number of receipt books whose
\* taskId is the task, however many receipts carry that taskId.
C18_BookCount ==
    FinAnswered =>
        \A e \in calls.fin.incomeByTask :
            e.receiptBookCount = Cardinality({b \in receiptBooks : b.taskId = e.taskId})

\* C19: getIncomeByTask returns exactly one entry per task of the store, and
\* each entry's total is the sum of the amounts of the receipts whose taskId
\* is the task (0 when there are none).
C19_OneEntryPerTask ==
    FinAnswered =>
        /\ {e.taskId : e \in calls.fin.incomeByTask} = Ids(tasks)
        /\ Cardinality(calls.fin.incomeByTask) = Cardinality(tasks)
        /\ \A e \in calls.fin.incomeByTask :
              e.total = sum({r \in receipts : r.taskId = e.taskId})

\* ------------------------------------------------------------------ publishing and the public page
\* From the seeded store with one receipt book: reports are published and
\* the public page is read while a receipt is posted and deleted and the
\* first expense is created.  No restore call runs.
NextPublish ==
    \/ FinBegin(1, "publish")
    \/ \E name \in calls.fin.pending : FinQuery(name)
    \/ PublishInsert
    \/ GetPublished
    \/ BeginSupplied(1, 1, 1, 1)
    \/ PostReceipt(1, 1, 1)
    \/ \E id \in 1..MaxReceipts : DeleteReceipt(1, id)
    \/ expenses = {} /\ PostExpense(1, 1, MaxAmount)

SpecPublish == InitFinancials /\ [][NextPublish]_vars

\* C20: every answer of GET /api/reports/published is 404 when no report
\* has been published, and otherwise the totals frozen in the report with
\* the greatest publishedAt, whatever the ledger holds by then; hence two
\* reads with no publish between them answer the same.
C20_PublicReadFrozen ==
    [][calls'.public # calls.public =>
          IF publishedReports = {}
          THEN calls'.public.status = 404 /\ calls'.public.report = {}
          ELSE \E latest \in publishedReports :
                  /\ \A o \in publishedReports : o.publishedAt <= latest.publishedAt
                  /\ calls'.public = [status |-> 200, report |-> {latest.reportData[2]},
                                      publishedAt |-> latest.publishedAt]]_vars

\* The public page answered with the second report after the ledger had
\* moved on: the frozen income differs from the income of the ledger.
C20_Witness ==
    /\ calls.public.status = 200
    /\ calls.public.publishedAt = 2
    /\ \E reportData \in calls.public.report : reportData.totalIncome # getTotalIncome

\* C21: a publish adds exactly one published report and leaves every
\* report that existed as it was (id, reportData, publishedAt, publishedBy);
\* no other step of the ledger, short of a restore, changes or removes a
\* published report.
C21_ReportsAppendOnly ==
    [][/\ publishedReports \subseteq publishedReports'
       /\ (calls.fin.pc = "insert" /\ calls'.fin.pc = "done")
             => Cardinality(publishedReports' \ publishedReports) = 1
       /\ calls.fin.pc # "insert" => publishedReports' = publishedReports]_vars

\* A second report was published next to a first one with other totals.
C21_Witness ==
    /\ calls.fin.pc = "done" /\ calls.fin.route = "publish"
    /\ \E r1 \in publishedReports, r2 \in publishedReports :
          /\ r1.publishedAt < r2.publishedAt
          /\ r1.reportData # r2.reportData

\* C22: every receipt book's totalReceipts is derived from its current
\* bounds: totalReceipts = endingReceiptNumber - startingReceiptNumber + 1.
C22_TotalReceiptsDerived ==
    \A b \in receiptBooks :
        b.totalReceipts = b.endingReceiptNumber - b.startingReceiptNumber + 1

\* C23: every receipt book the server stores has
\* endingReceiptNumber > startingReceiptNumber.
C23_EndingAboveStarting ==
    \A b \in receiptBooks : b.endingReceiptNumber > b.startingReceiptNumber

\* ------------------------------------------------------------------ books and receipts of several tasks
\* From the seeded store: the admin creates and updates a receipt book and
\* receipts of it, naming any of the first MaxJoin tasks in each request.
NextTasks ==
    \/ \E t \in 1..MaxJoin : PostReceiptBook(1, 1, t, 0, 1, MaxNum)
    \/ \E t \in 1..MaxJoin : PutReceiptBook(1, 1, t, 0, 1, MaxNum)
    \/ \E n \in 1..MaxNum : BeginSupplied(1, 1, 1, n)
    \/ \E t \in 1..MaxJoin : PostReceipt(1, t, 1)
    \/ Return(1)
    \/ \E id \in 1..MaxReceipts, n \in 1..MaxNum, t \in 1..MaxJoin : PutReceipt(1, id, n, 1, t)

SpecTasks == Init /\ [][NextTasks]_vars

\* C24: every receipt's taskId is the taskId of the receipt book its
\* receiptBookId names.
C24_ReceiptTaskMatchesBook ==
    \A r \in receipts : \A b \in getReceiptBook(r.receiptBookId) : r.taskId = b.taskId

\* C25: the taskId of a receipt book never changes after the book is created.
C25_BookTaskFixed ==
    [][\A b \in receiptBooks : \A after \in receiptBooks' :
          after.id = b.id => after.taskId = b.taskId]_vars

\* ------------------------------------------------------------------ a cash collector's requests
\* The seeded store with book 1 assigned to collector1 (user 3) and book 2
\* assigned to collector2 (user 4); only collector1 sends requests: receipts
\* posted to either book and edits of receipts.
AssignedBook(id, collector) == [BookRow(id, 1, MaxNum) EXCEPT !.assignedTo = collector]

InitCollector ==
    /\ users = SeedUsers
    /\ tasks = SeedTasks
    /\ expenseTypes = SeedExpenseTypes
    /\ receiptBooks = {AssignedBook(1, 3), AssignedBook(2, 4)}
    /\ receipts = {}
    /\ expenses = {}
    /\ publishedReports = {}
    /\ req = [q \in Reqs |-> IdleReq]
    /\ restore = [k \in RestoreCalls |-> IdleRestore]
    /\ calls = IdleCalls

NextCollector ==
    \/ \E b \in 1..2, n \in 1..MaxNum : BeginSupplied(1, 3, b, n)
    \/ PostReceipt(1, 1, 1)
    \/ Return(1)
    \/ \E id \in 1..MaxReceipts, n \in 1..MaxNum, b \in 1..2 : PutReceipt(3, id, n, b, 1)

SpecCollector == InitCollector /\ [][NextCollector]_vars

\* C26: every receipt a cash collector created or edited lies in a receipt
\* book assigned to that collector.
C26_CollectorOnlyAssignedBooks ==
    \A r \in receipts :
        (Authenticated(r.enteredBy) /\ RoleOf(r.enteredBy) = "cash_collector")
            => \A b \in getReceiptBook(r.receiptBookId) : b.assignedTo = r.enteredBy

\* C27: while restoreFromBackup deletes, the delete of a table is issued only
\* when every table referencing it has been emptied, and no two tables with a
\* foreign key between them are deleted in parallel.
C27_DeletesInDependencyOrder ==
    restore[1].pc = "deleting" =>
        /\ \A a \in restore[1].pending, b \in restore[1].pending : b \notin References(a)
        /\ \A a \in restore[1].pending :
              \A t \in {"users", "tasks", "expenseTypes", "receiptBooks", "receipts",
                        "expenses", "publishedReports"} :
                 a \in References(t) => (t \in restore[1].pending \/ TableOf(t) = {})

\* C28: during restoreFromBackup rows are inserted only when all deletes
\* have completed, and in the order users, tasks, expense types, receipt
\* books, receipts, expenses, published reports: when rows of a collection
\* are inserted, every earlier collection of the document is in place and
\* no later table holds a row.
C28_InsertsAfterDeletesInOrder ==
    [][LET order == << "users", "tasks", "expenseTypes", "receiptBooks", "receipts",
                       "expenses", "publishedReports" >>
       IN \A i \in 1..7 :
             (TableOf(order[i])' \ TableOf(order[i]) # {}) =>
                /\ restore[1].pc = "inserting"
                /\ restore[1].pending = {}
                /\ \A j \in i..7 : TableOf(order[j]) = {}
                /\ \A j \in 1..(i - 1) : TableOf(order[j]) = restore[1].data[order[j]]]_vars

\* A restore succeeded with a document that fills tasks, expense types,
\* receipt books, receipts and expenses.
C28_Witness ==
    /\ restore[1].pc = "ok"
    /\ restore[1].data.tasks # {} /\ restore[1].data.expenseTypes # {}
    /\ restore[1].data.receiptBooks # {} /\ restore[1].data.receipts # {}
    /\ restore[1].data.expenses # {}
    /\ receipts = restore[1].data.receipts

\* ------------------------------------------------------------------ two clients, two books
\* The seeded store with two receipt books of the same bounds: client q
\* enters receipts into book q with the number the server proposes, while
\* receipts are renumbered within their book and deleted.
InitTwoBooks ==
    /\ users = SeedUsers
    /\ tasks = SeedTasks
    /\ expenseTypes = SeedExpenseTypes
    /\ receiptBooks = {BookRow(1, 1, MaxNum), BookRow(2, 1, MaxNum)}
    /\ receipts = {}
    /\ expenses = {}
    /\ publishedReports = {}
    /\ req = [q \in Reqs |-> IdleReq]
    /\ restore = [k \in RestoreCalls |-> IdleRestore]
    /\ calls = IdleCalls

NextTwoBooks ==
    \/ \E q \in Reqs : BeginAuto(q, 1, q)
    \/ \E q \in Reqs : GetNextReadBook(q)
    \/ \E q \in Reqs : GetNextScan(q)
    \/ \E q \in Reqs : PostReceipt(q, 1, 1)
    \/ \E q \in Reqs : Return(q)
    \/ \E r \in receipts, n \in 1..MaxNum : PutReceipt(1, r.id, n, r.receiptBookId, 1)
    \/ \E id \in 1..MaxReceipts : DeleteReceipt(1, id)

SpecTwoBooks == InitTwoBooks /\ [][NextTwoBooks]_vars

\* C29: the number getNextReceiptNumber returns for a book is the result of
\* the scan over that book's bounds and the numbers of the receipts whose
\* receiptBookId is that book, so a step that touches only receipts of other
\* books never changes it; and a receipt entered with the proposed number
\* is created whatever a client of another book does in between.
C29_BooksIndependent ==
    [][/\ \A q \in Reqs :
             /\ (req[q].pc = "getReceipts" /\ req'[q].pc # "getReceipts") =>
                   \A b \in req[q].rb :
                      LET own == {r.receiptNumber :
                                    r \in {x \in receipts : x.receiptBookId = req[q].book}}
                          found == ScanFrom(b.startingReceiptNumber,
                                            b.endingReceiptNumber, own)
                      IN IF found.ok
                         THEN req'[q].pc = "haveNumber" /\ req'[q].num = found.num
                         ELSE req'[q].pc = "done" /\ req'[q].result = "exhausted"
             /\ (req[q].pc = "haveNumber" /\ req[q].auto /\ req'[q].pc = "done")
                   => req'[q].result = "created"
       /\ \A a \in receiptBooks \cap receiptBooks' :
             ({r \in receipts : r.receiptBookId = a.id}
                 = {r \in receipts' : r.receiptBookId = a.id})
             => NextNumberFor(a, receipts') = NextNumberFor(a, receipts)]_vars

\* Both clients entered a receipt, each into its own book, and both were
\* given the same number.
C29_Witness ==
    /\ Allocated(1) /\ Allocated(2)
    /\ req[1].book # req[2].book
    /\ req[1].num = req[2].num
    /\ \E r1 \in receipts, r2 \in receipts :
          /\ r1.receiptBookId = req[1].book /\ r2.receiptBookId = req[2].book
          /\ r1.receiptNumber = r2.receiptNumber

\* C30: in every reachable state a receipt book whose range is not empty
\* holds at most endingReceiptNumber - startingReceiptNumber + 1 receipts.
C30_ReceiptsWithinCapacity ==
    \A b \in receiptBooks :
        b.endingReceiptNumber >= b.startingReceiptNumber =>
            Cardinality({r \in receipts : r.receiptBookId = b.id})
                <= b.endingReceiptNumber - b.startingReceiptNumber + 1

====
